---- MODULE Spec2Model ----
(***************************************************************************)
(* Model of app.py of real-time-people-detection: load_model,              *)
(* process_frame and main (source selection, capture opening, the          *)
(* per-frame loop with its stop poll, metric update and frame pacing, the  *)
(* except handler and the finally block).                                  *)
(*                                                                         *)
(* A frame is its source index together with the ordered list of the cv2   *)
(* drawing calls applied to it in place; a frame is pixel-identical to its *)
(* input exactly when nothing was drawn on it.  Time is counted in ticks;  *)
(* the code only uses differences of time.time() against the start_time of *)
(* the running iteration, so every iteration reads the clock relative to   *)
(* its own start.                                                          *)
(***************************************************************************)
EXTENDS Integers, Sequences, FiniteSets

\* ---------------------------------------------------------------- bounds
\* Frames a source delivers before it must end (ret = False) or fail.
MaxFrames == 3
\* Detections the detector returns for one frame.
MaxDets == 2
\* Largest class id the detector returns (0 is person).
MaxClass == 1
\* Longest inference time of one frame, in ticks.
MaxInfer == 3
\* Longest oversleep of time.sleep beyond the requested time, in ticks.
MaxOversleep == 1

\* ------------------------------------------------------------- constants
\* COCO class id of a person (app.py line 52).
PersonClassId == 0
\* frame_time_target (1/15 s), in ticks.
frame_time_target == 2
\* Outline thickness of the bounding box, and cv2's code for a filled shape.
BoxThickness == 2
Filled == -1
\* The value the metric is created with (line 119).
MetricInitialValue == 0
\* The value previous_count starts from (line 180).
PreviousCountInitial == 0

\* The count sequence of the documented example; a source whose frames have
\* given these counts so far delivers the whole sequence, beyond MaxFrames.
Example == <<0, 0, 2, 2, 2, 1>>

None == "None"
NoFrame == [src |-> 0, drawn |-> <<>>]

\* ------------------------------------------------------ detector results
\* A detection: class id, confidence in hundredths, bounding box.
Confs == {91}
Boxes == {<<1, 1, 3, 3>>}
Detection == [cls : 0..MaxClass, conf : Confs, xyxy : Boxes]

SeqsUpTo(S, n) == UNION {[1..k -> S] : k \in 0..n}
\* What the detector returns: result.boxes is None, or a list of detections.
NoBoxes == [is_none |-> TRUE, boxes |-> <<>>]
Results == {NoBoxes} \cup
           {[is_none |-> FALSE, boxes |-> b] : b \in SeqsUpTo(Detection, MaxDets)}

\* ---------------------------------------------------------- process_frame
\* label = f"Person {confidence:.2f}" (line 66).
Label(box) == << "Person", box.conf >>

\* cv2.getTextSize(label, ...) (line 69): the label's width and height.
getTextSize(label) == [label_width |-> 2 * Len(label), label_height |-> 1]

\* The three cv2 calls made for one person detection (lines 56-73): the
\* outline of the box, the filled background of the label, the label's text.
DrawPerson(frame, box) ==
    LET x1 == box.xyxy[1]
        y1 == box.xyxy[2]
        x2 == box.xyxy[3]
        y2 == box.xyxy[4]
        label == Label(box)
        size == getTextSize(label)
    IN [frame EXCEPT !.drawn = @ \o
        << [op |-> "rectangle", pt1 |-> <<x1, y1>>, pt2 |-> <<x2, y2>>,
            thickness |-> BoxThickness, text |-> <<>>],
           [op |-> "rectangle", pt1 |-> <<x1, y1 - size.label_height - 10>>,
            pt2 |-> <<x1 + size.label_width, y1>>,
            thickness |-> Filled, text |-> <<>>],
           [op |-> "putText", pt1 |-> <<x1, y1 - 5>>, pt2 |-> <<x1, y1 - 5>>,
            thickness |-> 1, text |-> label] >>]

\* int(box.cls[0]): the detector's class ids are whole numbers.
ClassIdOf(box) == box.cls

RECURSIVE ProcessBoxes_CountAll(_, _, _)
ProcessBoxes_CountAll(boxes, frame, people_count) ==
    IF boxes = <<>> THEN [frame |-> frame, people_count |-> people_count]
    ELSE IF ClassIdOf(Head(boxes)) = PersonClassId
         THEN ProcessBoxes_CountAll(Tail(boxes), DrawPerson(frame, Head(boxes)),
                                    people_count + 1)
         ELSE ProcessBoxes_CountAll(Tail(boxes), frame, people_count + 1)

RECURSIVE ProcessBoxes_DrawAll(_, _, _)
ProcessBoxes_DrawAll(boxes, frame, people_count) ==
    IF boxes = <<>> THEN [frame |-> frame, people_count |-> people_count]
    ELSE IF ClassIdOf(Head(boxes)) = PersonClassId
         THEN ProcessBoxes_DrawAll(Tail(boxes), DrawPerson(frame, Head(boxes)),
                                   people_count + 1)
         ELSE ProcessBoxes_DrawAll(Tail(boxes), DrawPerson(frame, Head(boxes)),
                                   people_count)

\* The loop over result.boxes (lines 48-73).
RECURSIVE ProcessBoxes(_, _, _)
ProcessBoxes(boxes, frame, people_count) ==
    IF boxes = <<>> THEN [frame |-> frame, people_count |-> people_count]
    ELSE IF ClassIdOf(Head(boxes)) = PersonClassId
         THEN ProcessBoxes(Tail(boxes), DrawPerson(frame, Head(boxes)),
                           people_count + 1)
         ELSE ProcessBoxes(Tail(boxes), frame, people_count)

\* process_frame after the detector returned result (lines 44-75).
process_frame(frame, result) ==
    IF ~result.is_none
    THEN ProcessBoxes(result.boxes, frame, 0)
    ELSE [frame |-> frame, people_count |-> 0]

\* ------------------------------------------------------------------ state
VARIABLES
    pc,              \* position in main()
    reports,         \* the st.error / st.warning / st.info / st.success shown
    source_option,   \* "unset", "Camera" or "Video File"
    uploaded_file,   \* whether a file was uploaded
    stop_button,     \* the value st.button returned at line 123
    clicked,         \* the user pressed Stop Detection while the loop ran
    cap,             \* None, or how the capture came out: "opened", "failed"
    release_count,   \* calls of cap.release()
    temp_file_path,  \* whether temp_file_path was set
    temp_exists,     \* whether the temporary file exists on disk
    unlink_failed,   \* os.unlink raised in the finally block
    raised_at,       \* the step that raised the exception the handler caught
    frames_read,     \* frames cap.read() delivered
    displayed,       \* frames handed to frame_placeholder.image
    result,    \* what the detector returned for the frame in flight
    frame,           \* the frame in flight
    people_count,
    previous_count,
    metric_writes,   \* the values written to count_placeholder.metric
    counts,          \* the counts process_frame returned, oldest first
    now,             \* time.time()
    start_time,
    elapsed_time,
    slept            \* the time passed to time.sleep in this iteration

vars == << pc, reports, source_option, uploaded_file, stop_button, clicked, cap,
           release_count, temp_file_path, temp_exists, unlink_failed, raised_at,
           frames_read, displayed, result, frame, people_count,
           previous_count, metric_writes, counts, now, start_time, elapsed_time,
           slept >>

srcVars == << source_option, uploaded_file, stop_button >>
capVars == << cap, release_count, temp_file_path, temp_exists, unlink_failed >>
frameVars == << frames_read, displayed, result, frame, people_count, counts >>
countVars == << previous_count, metric_writes >>
timeVars == << now, start_time, elapsed_time, slept >>

\* cap.isOpened(): the capture opened and was not released.
isOpened == cap = "opened" /\ release_count = 0

LoopPcs == {"while", "poll", "read", "process", "display", "metric", "pace"}

Init ==
    /\ pc = "load_model"
    /\ reports = {}
    /\ source_option = "unset"
    /\ uploaded_file = FALSE
    /\ stop_button = FALSE
    /\ clicked = FALSE
    /\ cap = None
    /\ release_count = 0
    /\ temp_file_path = FALSE
    /\ temp_exists = FALSE
    /\ unlink_failed = FALSE
    /\ raised_at = None
    /\ frames_read = 0
    /\ displayed = 0
    /\ result = NoBoxes
    /\ frame = NoFrame
    /\ people_count = 0
    /\ previous_count = PreviousCountInitial
    /\ metric_writes = <<>>
    /\ counts = <<>>
    /\ now = 0
    /\ start_time = 0
    /\ elapsed_time = 0
    /\ slept = 0

Report(msg) == reports' = reports \cup {msg}

\* load_model with a handler that reports and returns instead of re-raising.
LoadModel_Swallow ==
    /\ pc = "load_model"
    /\ \/ /\ pc' = "select"
          /\ UNCHANGED reports
       \/ /\ Report("Failed to load YOLOv8 model")
          /\ pc' = "select"
    /\ UNCHANGED << srcVars, clicked, capVars, raised_at, frameVars, countVars,
                    timeVars >>

\* ------------------------------------------------------------- load_model
\* main() line 93 calling load_model (lines 17-22): YOLO('yolov8n.pt') either
\* returns the model, or raises; the handler reports and re-raises, and main
\* has no handler around the call, so the exception leaves main.
LoadModel ==
    /\ pc = "load_model"
    /\ \/ /\ pc' = "select"
          /\ UNCHANGED reports
       \/ /\ Report("Failed to load YOLOv8 model")
          /\ pc' = "raised"
    /\ UNCHANGED << srcVars, clicked, capVars, raised_at, frameVars, countVars,
                    timeVars >>

\* ------------------------------------------------------------------- main
\* Lines 96-123: the widgets are read once; the metric is created showing 0.
SelectSource ==
    /\ pc = "select"
    /\ \E opt \in {"Camera", "Video File"}, up \in BOOLEAN, sb \in BOOLEAN :
          /\ (opt = "Camera") => ~up
          /\ source_option' = opt
          /\ uploaded_file' = up
          /\ stop_button' = sb
    /\ metric_writes' = Append(metric_writes, MetricInitialValue)
    /\ pc' = "open"
    /\ UNCHANGED << reports, clicked, capVars, raised_at, frameVars,
                    previous_count, timeVars >>

\* Lines 130-140, and 176-183 when the camera opened.
OpenCamera ==
    /\ pc = "open"
    /\ source_option = "Camera"
    /\ \/ /\ raised_at' = "open"
          /\ pc' = "except"
          /\ UNCHANGED << reports, cap, previous_count >>
       \/ /\ cap' = "failed"
          /\ Report("Unable to access camera")
          /\ pc' = "finally"
          /\ UNCHANGED << raised_at, previous_count >>
       \/ /\ cap' = "opened"
          /\ Report("Camera initialized successfully")
          /\ previous_count' = PreviousCountInitial
          /\ pc' = "while"
          /\ UNCHANGED raised_at
    /\ UNCHANGED << srcVars, clicked, release_count, temp_file_path, temp_exists,
                    unlink_failed, frameVars, metric_writes, timeVars >>

\* Lines 142-173, and 176-183 when the file opened as video.
OpenVideo ==
    /\ pc = "open"
    /\ source_option = "Video File"
    /\ \/ /\ ~uploaded_file
          /\ Report("Please upload a video file")
          /\ pc' = "finally"
          /\ UNCHANGED << cap, temp_file_path, temp_exists, raised_at,
                          previous_count >>
       \/ /\ uploaded_file
          /\ temp_file_path' = TRUE
          /\ temp_exists' = TRUE
          /\ raised_at' = "open"
          /\ pc' = "except"
          /\ UNCHANGED << reports, cap, previous_count >>
       \/ /\ uploaded_file
          /\ temp_file_path' = TRUE
          /\ cap' = "failed"
          /\ Report("Unable to open video file")
          /\ \/ /\ temp_exists' = FALSE
                /\ pc' = "finally"
                /\ UNCHANGED raised_at
             \/ /\ temp_exists' = TRUE
                /\ raised_at' = "open"
                /\ pc' = "except"
          /\ UNCHANGED previous_count
       \/ /\ uploaded_file
          /\ temp_file_path' = TRUE
          /\ temp_exists' = TRUE
          /\ cap' = "opened"
          /\ Report("Video file loaded successfully")
          /\ previous_count' = PreviousCountInitial
          /\ pc' = "while"
          /\ UNCHANGED raised_at
    /\ UNCHANGED << srcVars, clicked, release_count, unlink_failed, frameVars,
                    metric_writes, timeVars >>

\* Lines 186-187: the loop condition, then start_time = time.time().
LoopTop ==
    /\ pc = "while"
    /\ IF isOpened
       THEN /\ now' = 0
            /\ start_time' = 0
            /\ slept' = 0
            /\ pc' = "poll"
       ELSE /\ pc' = "finally"
            /\ UNCHANGED << now, start_time, slept >>
    /\ UNCHANGED << reports, srcVars, clicked, capVars, raised_at, frameVars,
                    countVars, elapsed_time >>

\* Lines 190-192: the stop check reads the local stop_button.
PollStop ==
    /\ pc = "poll"
    /\ IF stop_button
       THEN /\ Report("Detection stopped by user")
            /\ pc' = "finally"
       ELSE /\ pc' = "read"
            /\ UNCHANGED reports
    /\ UNCHANGED << srcVars, clicked, capVars, raised_at, frameVars, countVars,
                    timeVars >>

\* The user presses the Stop Detection button (line 123) while the loop runs.
\* No statement of the loop reads the button again.
ClickStop ==
    /\ pc \in LoopPcs
    /\ ~clicked
    /\ clicked' = TRUE
    /\ UNCHANGED << pc, reports, srcVars, capVars, raised_at, frameVars,
                    countVars, timeVars >>

IsProperPrefix(s, t) == Len(s) < Len(t) /\ s = SubSeq(t, 1, Len(s))

\* The source still has a frame to deliver.
CanRead ==
    \/ frames_read < MaxFrames
    \/ (frames_read = Len(counts) /\ IsProperPrefix(counts, Example))

\* Lines 195-200.
ReadFrame ==
    /\ pc = "read"
    /\ \/ /\ raised_at' = "read"
          /\ pc' = "except"
          /\ UNCHANGED << reports, frames_read, frame >>
       \/ /\ Report("End of video or unable to read frame")
          /\ pc' = "finally"
          /\ UNCHANGED << raised_at, frames_read, frame >>
       \/ /\ CanRead
          /\ frames_read' = frames_read + 1
          /\ frame' = [src |-> frames_read + 1, drawn |-> <<>>]
          /\ pc' = "process"
          /\ UNCHANGED << reports, raised_at >>
    /\ UNCHANGED << srcVars, clicked, capVars, displayed, result,
                    people_count, counts, countVars, timeVars >>

\* Line 203: the detector runs for d ticks and raises or returns boxes;
\* process_frame draws on the frame and returns it with the count.
ProcessFrame ==
    /\ pc = "process"
    /\ \E d \in 0..MaxInfer :
          /\ now' = now + d
          /\ \/ /\ raised_at' = "process"
                /\ pc' = "except"
                /\ UNCHANGED << result, frame, people_count, counts >>
             \/ \E boxes \in Results :
                   LET r == process_frame(frame, boxes) IN
                   /\ result' = boxes
                   /\ frame' = r.frame
                   /\ people_count' = r.people_count
                   /\ counts' = Append(counts, r.people_count)
                   /\ pc' = "display"
                   /\ UNCHANGED raised_at
    /\ UNCHANGED << reports, srcVars, clicked, capVars, frames_read, displayed,
                    countVars, start_time, elapsed_time, slept >>

\* A display step that drops the frame when the iteration is already late.
DisplayFrame_SkipWhenLate ==
    /\ pc = "display"
    /\ \/ /\ raised_at' = "display"
          /\ pc' = "except"
          /\ UNCHANGED << displayed, result, frame >>
       \/ /\ displayed' = IF now - start_time >= frame_time_target
                          THEN displayed ELSE displayed + 1
          /\ result' = NoBoxes
          /\ frame' = NoFrame
          /\ pc' = "metric"
          /\ UNCHANGED raised_at
    /\ UNCHANGED << reports, srcVars, clicked, capVars, frames_read,
                    people_count, counts, countVars, timeVars >>

\* Lines 206-209: the frame goes to the display and is not kept.
DisplayFrame ==
    /\ pc = "display"
    /\ \/ /\ raised_at' = "display"
          /\ pc' = "except"
          /\ UNCHANGED << displayed, result, frame >>
       \/ /\ displayed' = displayed + 1
          /\ result' = NoBoxes
          /\ frame' = NoFrame
          /\ pc' = "metric"
          /\ UNCHANGED raised_at
    /\ UNCHANGED << reports, srcVars, clicked, capVars, frames_read,
                    people_count, counts, countVars, timeVars >>

\* A metric step that writes the metric on every frame.
UpdateMetric_Always ==
    /\ pc = "metric"
    /\ metric_writes' = Append(metric_writes, people_count)
    /\ previous_count' = people_count
    /\ pc' = "pace"
    /\ UNCHANGED << reports, srcVars, clicked, capVars, raised_at, frameVars,
                    timeVars >>

\* A metric step that writes on change but does not remember what it wrote.
UpdateMetric_ForgetPrevious ==
    /\ pc = "metric"
    /\ IF people_count # previous_count
       THEN metric_writes' = Append(metric_writes, people_count)
       ELSE UNCHANGED metric_writes
    /\ pc' = "pace"
    /\ UNCHANGED << reports, srcVars, clicked, capVars, raised_at, frameVars,
                    previous_count, timeVars >>

\* Lines 212-214.
UpdateMetric ==
    /\ pc = "metric"
    /\ IF people_count # previous_count
       THEN \/ /\ raised_at' = "metric"
               /\ pc' = "except"
               /\ UNCHANGED countVars
            \/ /\ metric_writes' = Append(metric_writes, people_count)
               /\ previous_count' = people_count
               /\ pc' = "pace"
               /\ UNCHANGED raised_at
       ELSE /\ pc' = "pace"
            /\ UNCHANGED << raised_at, countVars >>
    /\ UNCHANGED << reports, srcVars, clicked, capVars, frameVars, timeVars >>

\* A pacing step that sleeps the whole interval whatever time has passed.
PaceFrame_SleepWholeInterval ==
    /\ pc = "pace"
    /\ elapsed_time' = now - start_time
    /\ slept' = frame_time_target
    /\ \E over \in 0..MaxOversleep : now' = now + slept' + over
    /\ pc' = "while"
    /\ UNCHANGED << reports, srcVars, clicked, capVars, raised_at, frameVars,
                    countVars, start_time >>

\* Lines 217-219: time.sleep returns no earlier than asked.
PaceFrame ==
    /\ pc = "pace"
    /\ elapsed_time' = now - start_time
    /\ IF elapsed_time' < frame_time_target
       THEN /\ slept' = frame_time_target - elapsed_time'
            /\ \E over \in 0..MaxOversleep : now' = now + slept' + over
       ELSE /\ slept' = 0
            /\ now' = now
    /\ pc' = "while"
    /\ UNCHANGED << reports, srcVars, clicked, capVars, raised_at, frameVars,
                    countVars, start_time >>

\* A handler that swallows the exception without telling the user.
HandleException_Silent ==
    /\ pc = "except"
    /\ pc' = "finally"
    /\ UNCHANGED << reports, srcVars, clicked, capVars, raised_at, frameVars,
                    countVars, timeVars >>

\* Lines 221-222.
HandleException ==
    /\ pc = "except"
    /\ Report("An error occurred during video processing")
    /\ pc' = "finally"
    /\ UNCHANGED << srcVars, clicked, capVars, raised_at, frameVars, countVars,
                    timeVars >>

\* A finally block that releases the capture only while it is open.
Cleanup_ReleaseIfOpened ==
    /\ pc = "finally"
    /\ IF cap # None /\ isOpened
       THEN release_count' = release_count + 1
       ELSE UNCHANGED release_count
    /\ IF temp_file_path /\ temp_exists
       THEN \/ /\ temp_exists' = FALSE
               /\ UNCHANGED unlink_failed
            \/ /\ unlink_failed' = TRUE
               /\ UNCHANGED temp_exists
       ELSE UNCHANGED << temp_exists, unlink_failed >>
    /\ pc' = "done"
    /\ UNCHANGED << reports, srcVars, clicked, cap, temp_file_path, raised_at,
                    frameVars, countVars, timeVars >>

\* Lines 224-236; an os.unlink that raises leaves the file, and is ignored.
Cleanup ==
    /\ pc = "finally"
    /\ IF cap # None
       THEN release_count' = release_count + 1
       ELSE UNCHANGED release_count
    /\ IF temp_file_path /\ temp_exists
       THEN \/ /\ temp_exists' = FALSE
               /\ UNCHANGED unlink_failed
            \/ /\ unlink_failed' = TRUE
               /\ UNCHANGED temp_exists
       ELSE UNCHANGED << temp_exists, unlink_failed >>
    /\ pc' = "done"
    /\ UNCHANGED << reports, srcVars, clicked, cap, temp_file_path, raised_at,
                    frameVars, countVars, timeVars >>

Next ==
    \/ LoadModel
    \/ SelectSource
    \/ OpenCamera
    \/ OpenVideo
    \/ LoopTop
    \/ PollStop
    \/ ClickStop
    \/ ReadFrame
    \/ ProcessFrame
    \/ DisplayFrame
    \/ UpdateMetric
    \/ PaceFrame
    \/ HandleException
    \/ Cleanup

Spec == Init /\ [][Next]_vars

\* ----------------------------------------------------------------- claims
Last(s) == s[Len(s)]
\* The detections of the person class (class id 0) among the returned ones.
Persons(res) == {i \in DOMAIN res.boxes : res.boxes[i].cls = 0}
\* The cv2.rectangle calls made on a frame, and those that outline a box.
Rectangles(f) == {i \in DOMAIN f.drawn : f.drawn[i].op = "rectangle"}
Outlines(f) == {i \in Rectangles(f) : f.drawn[i].thickness > 0}
\* The frame cap.read() delivered last, as it was read.
InputFrame == [src |-> frames_read, drawn |-> <<>>]
InLoopException == raised_at \in {"read", "process", "display", "metric"}

\* C1 (as stated): once a capture was created, the capture is released exactly
\* once on every way out of main, and when main has returned no temporary
\* file exists.
C1_ReleasedOnceAndTempFileGone ==
    /\ release_count <= 1
    /\ (pc = "done" /\ cap # None) =>
          /\ release_count = 1
          /\ ~temp_exists

\* C1 (amended): once a capture was created, the capture is released exactly
\* once on every way out of main; when main has returned, the temporary file
\* is gone unless the os.unlink of the finally block raised, which is ignored
\* and leaves the file.
C1_ReleasedOnceAndTempFileGoneUnlessUnlinkFails ==
    /\ release_count <= 1
    /\ (pc # "done" /\ cap # None) => release_count = 0
    /\ (pc = "done" /\ cap # None) =>
          /\ release_count = 1
          /\ temp_exists => (temp_file_path /\ unlink_failed)

\* C1 witness: main returned after an exception in the loop over an uploaded
\* video; the capture was released once and the temporary file deleted.
C1_Witness ==
    /\ pc = "done"
    /\ InLoopException
    /\ cap = "opened"
    /\ temp_file_path
    /\ ~temp_exists
    /\ release_count = 1

\* C2 (as stated): the count process_frame returns equals the number of
\* returned detections of class 0 and the number of rectangles drawn.
C2_CountEqualsPersonsAndRectangles ==
    pc = "display" =>
       /\ people_count = Cardinality(Persons(result))
       /\ people_count = Cardinality(Rectangles(frame))

\* C2 (amended): the count process_frame returns equals the number of
\* returned detections of class 0 and the number of box outlines drawn; each
\* person also gets a filled rectangle behind its label, so the rectangles
\* drawn are twice the count.
C2_CountEqualsPersonsAndOutlines ==
    pc = "display" =>
       /\ people_count = Cardinality(Persons(result))
       /\ people_count = Cardinality(Outlines(frame))
       /\ Cardinality(Rectangles(frame)) = 2 * people_count

\* C2 witness: process_frame returned for a person and another object.
C2_Witness ==
    /\ pc = "display"
    /\ Len(result.boxes) = 2
    /\ people_count = 1

\* C3: after the metric is created showing 0, it is written only by a frame
\* whose count differs from the count of the frame before it (0 before the
\* first frame), and it is written with that frame's count; the counts
\* 0,0,2,2,2,1 leave exactly the writes 0, 2, 1.
C3_MetricWrittenOnlyOnChange ==
    /\ [][metric_writes' # metric_writes =>
            \/ pc = "select" /\ metric_writes' = <<0>>
            \/ /\ pc = "metric"
               /\ counts # <<>>
               /\ Last(counts) # (IF Len(counts) > 1
                                  THEN counts[Len(counts) - 1] ELSE 0)
               /\ metric_writes' = Append(metric_writes, Last(counts))]_vars
    /\ []((pc = "while" /\ counts = Example) => metric_writes = <<0, 2, 1>>)

\* C3 witness: the six frames of the example were processed and displayed.
C3_Witness ==
    /\ pc = "while"
    /\ counts = Example
    /\ displayed = 6

\* C4: when the detector returns no detection of class 0 (no box list, an
\* empty one, or other classes only), process_frame draws nothing, returns
\* the frame as it was read, and returns the count 0.
C4_NoPersonNoDrawing ==
    (pc = "display" /\ Persons(result) = {}) =>
       /\ frame = InputFrame
       /\ people_count = 0

\* C4 witness: process_frame returned for two detections of another class.
C4_Witness ==
    /\ pc = "display"
    /\ Len(result.boxes) = 2
    /\ Persons(result) = {}

\* C5 (as stated): once the user has pressed the stop control while the loop
\* runs, the next stop poll leaves the loop, so nothing is read after it.
C5_StopExitsAtNextPoll ==
    [][(clicked /\ pc = "poll") => pc' = "finally"]_vars

\* C6: a capture that fails to open is reported, no frame is ever read and
\* main goes to its exit; an exception raised in the loop is caught and
\* reported, no frame is read after it, and main returns instead of raising.
C6_FailuresReportedAndTerminal ==
    /\ [](cap = "failed" =>
            /\ frames_read = 0
            /\ pc \in {"except", "finally", "done"}
            /\ source_option = "Camera" => "Unable to access camera" \in reports
            /\ source_option = "Video File" =>
                  "Unable to open video file" \in reports)
    /\ [](InLoopException =>
            /\ pc \in {"except", "finally", "done"}
            /\ pc # "except" =>
                  "An error occurred during video processing" \in reports)
    /\ [][(cap = "failed" \/ InLoopException) =>
            /\ frames_read' = frames_read
            /\ displayed' = displayed
            /\ counts' = counts]_vars

\* C6 witness: main returned after process_frame raised on the second frame.
C6_Witness ==
    /\ pc = "done"
    /\ raised_at = "process"
    /\ frames_read = 2

\* C7: at the end of an iteration that displayed a frame, if the elapsed time
\* e was below the target interval the loop slept target - e and the next
\* iteration starts at least the target interval after this one started; if
\* e reached the target the loop did not sleep.
C7_SleepsTheShortfall ==
    (pc = "while" /\ frames_read > 0) =>
       /\ elapsed_time < frame_time_target =>
             /\ slept = frame_time_target - elapsed_time
             /\ now - start_time >= frame_time_target
       /\ elapsed_time >= frame_time_target =>
             /\ slept = 0
             /\ now - start_time = elapsed_time

\* C7 witness: an iteration ended one tick after its start and slept.
C7_Witness ==
    /\ pc = "while"
    /\ frames_read > 0
    /\ elapsed_time = 1
    /\ slept > 0

\* C8: a failure to load the model is reported and leaves main with the
\* exception before a source is selected: no capture, no temporary file, no
\* frame read.
C8_ModelLoadFailureAbortsStartup ==
    ("Failed to load YOLOv8 model" \in reports) =>
       /\ pc = "raised"
       /\ source_option = "unset"
       /\ cap = None
       /\ ~temp_file_path
       /\ ~temp_exists
       /\ frames_read = 0
       /\ metric_writes = <<>>

\* C8 witness: main was left by the exception of load_model.
C8_Witness ==
    /\ pc = "raised"
    /\ "Failed to load YOLOv8 model" \in reports

\* C9: every frame read is inferred on and then displayed before the next
\* read; the frames displayed are the frames read, less the one in flight,
\* also after an iteration that took longer than the target interval.
C9_OneFrameAtATimeNoneDropped ==
    /\ displayed <= Len(counts)
    /\ Len(counts) <= frames_read
    /\ frames_read <= displayed + 1
    /\ pc \in {"while", "poll", "read", "metric", "pace"} =>
          displayed = frames_read
    /\ pc = "process" => (frames_read = displayed + 1 /\ Len(counts) = displayed)
    /\ pc = "display" => (frames_read = displayed + 1 /\ Len(counts) = frames_read)

\* C9 witness: the loop is about to read again after a slow iteration.
C9_Witness ==
    /\ pc = "read"
    /\ frames_read = 2
    /\ displayed = 2
    /\ elapsed_time > frame_time_target

\* C10: at the loop's start and at the end of every completed iteration the
\* metric shows previous_count, which is the count of the frame processed
\* last (0 before any frame).
C10_MetricShowsLatestCount ==
    pc = "while" =>
       /\ metric_writes # <<>>
       /\ Last(metric_writes) = previous_count
       /\ previous_count = (IF counts = <<>> THEN 0 ELSE Last(counts))

\* C10 witness: the last two frames had the same non-zero count, so the last
\* frame wrote nothing.
C10_Witness ==
    /\ pc = "while"
    /\ Len(counts) >= 2
    /\ Last(counts) = 1
    /\ counts[Len(counts) - 1] = 1

====
